---- MODULE Spec2Model ----
(***************************************************************************)
(* Extra-Application-Mountain-Car.ipynb: the notebook's code cells, run    *)
(* top to bottom in one kernel.  The notebook starts Ray, clears the       *)
(* checkpoint root, builds a PPO trainer, restores it from the supplied    *)
(* checkpoint, trains N_ITER iterations (train, record, save, print),      *)
(* prints the model, shuts Ray down and invokes the rollout command.       *)
(*                                                                         *)
(* The trainer (agent), Ray and the file system are the notebook's         *)
(* collaborators.  Each call into the trainer either returns or raises;    *)
(* an exception that leaves a cell stops the run (the kernel executes no   *)
(* later cell).  calls, trainReturns and saveReturns record what a trainer *)
(* double would record: the calls it received and what it returned.       *)
(*                                                                         *)
(* Metric values are whole numbers (the rewards of MountainCar episodes    *)
(* are whole; means are taken to be whole too).                            *)
(***************************************************************************)
EXTENDS Integers, Sequences, FiniteSets, TLC

VARIABLES
    pc,              \* the cell, or statement of the loop cell, about to run
    rayInitialized,  \* ray.is_initialized()
    rootExists,      \* whether the directory checkpoint_root exists
    disk,            \* the checkpoint files under checkpoint_root
    rmtreeCalls,     \* how many times shutil.rmtree(checkpoint_root) has run
    agent,           \* the trainer: whether built, and its training iteration
    N_ITER,          \* the setting N_ITER
    it,              \* how many values the iterator of range(N_ITER) has yielded
    n,               \* the loop variable
    result,          \* the loop's result
    file_name,       \* the loop's file_name
    results,         \* the list results
    episode_data,    \* the list episode_data
    episode_json,    \* the list episode_json
    stdout,          \* the progress lines printed
    calls,           \* the trainer calls made, in order, each with its outcome
    trainReturns,    \* what the completed train calls returned, in order
    saveReturns,     \* what the completed save calls returned, in order
    rollout          \* the rollout command's invocation, once made

vars == <<pc, rayInitialized, rootExists, disk, rmtreeCalls, agent, N_ITER, it, n,
          result, file_name, results, episode_data, episode_json, stdout,
          calls, trainReturns, saveReturns, rollout>>

(***************************************************************************)
(* Bounds of the model.                                                    *)
(***************************************************************************)
\* N_ITER ranges over 0..MaxIter and the notebook's own value.
MaxIter == 3
\* train's metrics vary during the first MaxVaried calls of a run.
MaxVaried == 2

(***************************************************************************)
(* The notebook's literals.                                                *)
(***************************************************************************)
checkpoint_root == "tmp/ppo/mountain-car"

DEFAULT_N_ITER == 20

\* agent.restore('mountain-car-checkpoint/checkpoint-20'): the checkpoint of
\* training iteration 20.
RESTORE_CHECKPOINT == "mountain-car-checkpoint/checkpoint-20"

RESTORE_ITERATION == 20

\* !rllib rollout tmp/ppo/mountain-car/checkpoint_200/checkpoint-200
ROLLOUT_CHECKPOINT == "tmp/ppo/mountain-car/checkpoint_200/checkpoint-200"

(***************************************************************************)
(* Formatting.                                                             *)
(***************************************************************************)
RECURSIVE PadLeft(_, _)
PadLeft(s, w) == IF Len(s) >= w THEN s ELSE PadLeft(" " \o s, w)

\* f'{k:3d}'
Fmt3d(k) == PadLeft(ToString(k), 3)

\* f'{x:8.4f}' of a whole x
Fmt8_4f(x) == PadLeft(ToString(x) \o ".0000", 8)

\* The path agent.save(dir) returns at training iteration k.
CheckpointPath(dir, k) ==
    dir \o "/checkpoint_" \o ToString(k) \o "/checkpoint-" \o ToString(k)

(***************************************************************************)
(* The trainer's metrics.                                                  *)
(***************************************************************************)
Metrics(lo, mean, hi, len) ==
    [episode_reward_min |-> lo, episode_reward_mean |-> mean,
     episode_reward_max |-> hi, episode_len_mean |-> len]

\* No episode reaches the top: every reward is -200.
StalledResult == Metrics(-200, -200, -200, 200)

TrainResults == {Metrics(-200, -150, -100, 200), StalledResult}

\* What the k-th train call of a run (k from 0) may return.
TrainOutcomes(k) == IF k < MaxVaried THEN TrainResults ELSE {StalledResult}

(***************************************************************************)
(* Control flow: the code cells in notebook order, and the statements of   *)
(* the loop body in source order.                                          *)
(***************************************************************************)
IndexOf(seq, x) == CHOOSE i \in 1..Len(seq) : seq[i] = x

CellOrder_restoreAfterLoop ==
    <<"ray_init", "rmtree", "create_agent", "loop", "restore", "summary",
      "shutdown", "rollout">>

CellOrder ==
    <<"ray_init", "rmtree", "create_agent", "restore", "loop", "summary",
      "shutdown", "rollout">>

LoopBody_saveBeforeAppend == <<"train", "save", "append", "print">>

LoopBody == <<"train", "append", "save", "print">>

\* The cell run after cell c completes.
AfterCell(c) ==
    IF IndexOf(CellOrder, c) < Len(CellOrder)
    THEN CellOrder[IndexOf(CellOrder, c) + 1]
    ELSE "end"

\* The statement run after statement s of the loop body completes.
AfterStmt(s) ==
    IF IndexOf(LoopBody, s) < Len(LoopBody)
    THEN LoopBody[IndexOf(LoopBody, s) + 1]
    ELSE "for"

InLoopBody(s) == \E i \in 1..Len(LoopBody) : LoopBody[i] = s

After(s) == IF InLoopBody(s) THEN AfterStmt(s) ELSE AfterCell(s)

OnException_swallowed(s) == After(s)

OnException_finally(s) == "shutdown"

\* Where control goes when statement s raises: nothing catches it, the cell
\* ends and no later cell runs.
OnException(s) == "halted"

RangeHasNext_inclusive(i, N) == i <= N

\* range(N) yields i next iff i < N
RangeHasNext(i, N) == i < N

(***************************************************************************)
(* The values the loop builds.                                             *)
(***************************************************************************)
Episode_oneBased(k, r) ==
    [n |-> k + 1,
     episode_reward_min |-> r.episode_reward_min,
     episode_reward_mean |-> r.episode_reward_mean,
     episode_reward_max |-> r.episode_reward_max,
     episode_len_mean |-> r.episode_len_mean]

Episode(k, r) ==
    [n |-> k,
     episode_reward_min |-> r.episode_reward_min,
     episode_reward_mean |-> r.episode_reward_mean,
     episode_reward_max |-> r.episode_reward_max,
     episode_len_mean |-> r.episode_len_mean]

\* json.dumps(episode)
JsonDumps(e) ==
    "{\"n\": " \o ToString(e.n)
    \o ", \"episode_reward_min\": " \o ToString(e.episode_reward_min)
    \o ", \"episode_reward_mean\": " \o ToString(e.episode_reward_mean)
    \o ", \"episode_reward_max\": " \o ToString(e.episode_reward_max)
    \o ", \"episode_len_mean\": " \o ToString(e.episode_len_mean) \o "}"

ProgressLine_zeroBased(k, r, f) ==
    Fmt3d(k) \o ": Min/Mean/Max reward: "
    \o Fmt8_4f(r.episode_reward_min) \o "/"
    \o Fmt8_4f(r.episode_reward_mean) \o "/"
    \o Fmt8_4f(r.episode_reward_max) \o ", len mean: "
    \o Fmt8_4f(r.episode_len_mean) \o ". Checkpoint saved to " \o f

\* The line the loop prints in iteration k with result r and file_name f.
ProgressLine(k, r, f) ==
    Fmt3d(k + 1) \o ": Min/Mean/Max reward: "
    \o Fmt8_4f(r.episode_reward_min) \o "/"
    \o Fmt8_4f(r.episode_reward_mean) \o "/"
    \o Fmt8_4f(r.episode_reward_max) \o ", len mean: "
    \o Fmt8_4f(r.episode_len_mean) \o ". Checkpoint saved to " \o f

(***************************************************************************)
(* The file system under checkpoint_root.                                  *)
(***************************************************************************)
File(path, run) == [path |-> path, run |-> run]

\* Training iterations whose checkpoints an earlier run may have left.
EarlierIterations == {21, 200}

EarlierFiles ==
    {File(CheckpointPath(checkpoint_root, k), "earlier") : k \in EarlierIterations}

Rmtree_keep(files) == files

\* shutil.rmtree(checkpoint_root, ignore_errors=True): what is left of the
\* files under the directory.
Rmtree(files) == {}

\* agent.save(dir) at path p writes the checkpoint, replacing one of that path.
WriteCheckpoint(files, p) ==
    {f \in files : f.path # p} \cup {File(p, "current")}

Exists(files, p) == \E f \in files : f.path = p

Call(op, ok) == [op |-> op, ok |-> ok]

(***************************************************************************)
(* The state before the first cell runs.                                   *)
(***************************************************************************)
IterCounts == (0..MaxIter) \cup {DEFAULT_N_ITER}

Init ==
    /\ pc = CellOrder[1]
    /\ rayInitialized \in BOOLEAN
    /\ \/ rootExists = FALSE /\ disk = {}
       \/ rootExists = TRUE /\ disk \in SUBSET EarlierFiles
    /\ rmtreeCalls = 0
    /\ agent = [built |-> FALSE, iteration |-> 0]
    /\ N_ITER \in IterCounts
    /\ it = 0
    /\ n = 0
    /\ result = Metrics(0, 0, 0, 0)
    /\ file_name = ""
    /\ results = <<>>
    /\ episode_data = <<>>
    /\ episode_json = <<>>
    /\ stdout = <<>>
    /\ calls = <<>>
    /\ trainReturns = <<>>
    /\ saveReturns = <<>>
    /\ rollout = [invoked |-> FALSE, path |-> "", found |-> FALSE]

(***************************************************************************)
(* The cells.                                                              *)
(***************************************************************************)
\* ray.init(ignore_reinit_error=True)
RayInit ==
    /\ pc = "ray_init"
    /\ rayInitialized' = TRUE
    /\ pc' = AfterCell("ray_init")
    /\ UNCHANGED <<rootExists, disk, rmtreeCalls, agent, N_ITER, it, n, result,
                   file_name, results, episode_data, episode_json, stdout, calls,
                   trainReturns, saveReturns, rollout>>

\* shutil.rmtree(checkpoint_root, ignore_errors=True, onerror=None)
ClearCheckpointRoot ==
    /\ pc = "rmtree"
    /\ disk' = Rmtree(disk)
    /\ rootExists' = FALSE
    /\ rmtreeCalls' = rmtreeCalls + 1
    /\ pc' = AfterCell("rmtree")
    /\ UNCHANGED <<rayInitialized, agent, N_ITER, it, n, result, file_name,
                   results, episode_data, episode_json, stdout, calls,
                   trainReturns, saveReturns, rollout>>

\* agent = ppo.PPOTrainer(config, env=SELECT_ENV)
CreateAgent ==
    /\ pc = "create_agent"
    /\ agent' = [built |-> TRUE, iteration |-> 0]
    /\ pc' = AfterCell("create_agent")
    /\ UNCHANGED <<rayInitialized, rootExists, disk, rmtreeCalls, N_ITER, it, n,
                   result, file_name, results, episode_data, episode_json,
                   stdout, calls, trainReturns, saveReturns, rollout>>

\* agent.restore('mountain-car-checkpoint/checkpoint-20')
Restore ==
    /\ pc = "restore"
    /\ \E ok \in BOOLEAN :
        /\ calls' = Append(calls, Call("restore", ok))
        /\ IF ok
           THEN /\ agent' = [agent EXCEPT !.iteration = RESTORE_ITERATION]
                /\ pc' = AfterCell("restore")
           ELSE /\ agent' = agent
                /\ pc' = OnException("restore")
    /\ UNCHANGED <<rayInitialized, rootExists, disk, rmtreeCalls, N_ITER, it, n,
                   result, file_name, results, episode_data, episode_json,
                   stdout, trainReturns, saveReturns, rollout>>

\* results = []; episode_data = []; episode_json = []
LoopInit ==
    /\ pc = "loop"
    /\ results' = <<>>
    /\ episode_data' = <<>>
    /\ episode_json' = <<>>
    /\ it' = 0
    /\ pc' = "for"
    /\ UNCHANGED <<rayInitialized, rootExists, disk, rmtreeCalls, agent, N_ITER,
                   n, result, file_name, stdout, calls, trainReturns,
                   saveReturns, rollout>>

\* for n in range(N_ITER):
For ==
    /\ pc = "for"
    /\ IF RangeHasNext(it, N_ITER)
       THEN /\ n' = it
            /\ it' = it + 1
            /\ pc' = LoopBody[1]
       ELSE /\ UNCHANGED <<n, it>>
            /\ pc' = AfterCell("loop")
    /\ UNCHANGED <<rayInitialized, rootExists, disk, rmtreeCalls, agent, N_ITER,
                   result, file_name, results, episode_data, episode_json,
                   stdout, calls, trainReturns, saveReturns, rollout>>

\* result = agent.train()
Train ==
    /\ pc = "train"
    /\ \E ok \in BOOLEAN :
        /\ calls' = Append(calls, Call("train", ok))
        /\ IF ok
           THEN \E r \in TrainOutcomes(Len(trainReturns)) :
                /\ result' = r
                /\ trainReturns' = Append(trainReturns, r)
                /\ agent' = [agent EXCEPT !.iteration = @ + 1]
                /\ pc' = AfterStmt("train")
           ELSE /\ UNCHANGED <<result, trainReturns, agent>>
                /\ pc' = OnException("train")
    /\ UNCHANGED <<rayInitialized, rootExists, disk, rmtreeCalls, N_ITER, it, n,
                   file_name, results, episode_data, episode_json, stdout,
                   saveReturns, rollout>>

\* results.append(result); episode = {...}; episode_data.append(episode);
\* episode_json.append(json.dumps(episode))
AppendResult ==
    /\ pc = "append"
    /\ results' = Append(results, result)
    /\ episode_data' = Append(episode_data, Episode(n, result))
    /\ episode_json' = Append(episode_json, JsonDumps(Episode(n, result)))
    /\ pc' = AfterStmt("append")
    /\ UNCHANGED <<rayInitialized, rootExists, disk, rmtreeCalls, agent, N_ITER,
                   it, n, result, file_name, stdout, calls, trainReturns,
                   saveReturns, rollout>>

\* file_name = agent.save(checkpoint_root)
Save ==
    /\ pc = "save"
    /\ \E ok \in BOOLEAN :
        /\ calls' = Append(calls, Call("save", ok))
        /\ IF ok
           THEN /\ file_name' = CheckpointPath(checkpoint_root, agent.iteration)
                /\ saveReturns' = Append(saveReturns, file_name')
                /\ disk' = WriteCheckpoint(disk, file_name')
                /\ rootExists' = TRUE
                /\ pc' = AfterStmt("save")
           ELSE /\ UNCHANGED <<file_name, saveReturns, disk, rootExists>>
                /\ pc' = OnException("save")
    /\ UNCHANGED <<rayInitialized, rmtreeCalls, agent, N_ITER, it, n, result,
                   results, episode_data, episode_json, stdout, trainReturns,
                   rollout>>

\* print(f'{n+1:3d}: Min/Mean/Max reward: ... Checkpoint saved to {file_name}')
PrintProgress ==
    /\ pc = "print"
    /\ stdout' = Append(stdout, ProgressLine(n, result, file_name))
    /\ pc' = AfterStmt("print")
    /\ UNCHANGED <<rayInitialized, rootExists, disk, rmtreeCalls, agent, N_ITER,
                   it, n, result, file_name, results, episode_data,
                   episode_json, calls, trainReturns, saveReturns, rollout>>

\* pprint the model's variables, value function and summary
Summary ==
    /\ pc = "summary"
    /\ pc' = AfterCell("summary")
    /\ UNCHANGED <<rayInitialized, rootExists, disk, rmtreeCalls, agent, N_ITER,
                   it, n, result, file_name, results, episode_data,
                   episode_json, stdout, calls, trainReturns, saveReturns,
                   rollout>>

\* ray.shutdown()
Shutdown ==
    /\ pc = "shutdown"
    /\ rayInitialized' = FALSE
    /\ pc' = AfterCell("shutdown")
    /\ UNCHANGED <<rootExists, disk, rmtreeCalls, agent, N_ITER, it, n, result,
                   file_name, results, episode_data, episode_json, stdout, calls,
                   trainReturns, saveReturns, rollout>>

\* !rllib rollout tmp/ppo/mountain-car/checkpoint_200/checkpoint-200 ...
Rollout ==
    /\ pc = "rollout"
    /\ rollout' = [invoked |-> TRUE, path |-> ROLLOUT_CHECKPOINT,
                   found |-> Exists(disk, ROLLOUT_CHECKPOINT)]
    /\ pc' = AfterCell("rollout")
    /\ UNCHANGED <<rayInitialized, rootExists, disk, rmtreeCalls, agent, N_ITER,
                   it, n, result, file_name, results, episode_data,
                   episode_json, stdout, calls, trainReturns, saveReturns>>

Next ==
    \/ RayInit
    \/ ClearCheckpointRoot
    \/ CreateAgent
    \/ Restore
    \/ LoopInit
    \/ For
    \/ Train
    \/ AppendResult
    \/ Save
    \/ PrintProgress
    \/ Summary
    \/ Shutdown
    \/ Rollout

Spec == Init /\ [][Next]_vars

(***************************************************************************)
(* What the properties speak of.                                           *)
(***************************************************************************)
Last(seq) == seq[Len(seq)]

\* How many calls of op the trainer has received.
Calls(op) == Cardinality({i \in DOMAIN calls : calls[i].op = op})

\* Whether some trainer call has raised.
Failed == \E i \in DOMAIN calls : ~calls[i].ok

\* The loop cell has run to its end.
LoopDone == pc \in {"summary", "shutdown", "rollout", "end"}

\* The run is over: every cell has run, or an exception stopped it.
RunOver == pc \in {"end", "halted"}

\* A prior checkpoint is supplied to the run.
PriorSupplied == RESTORE_CHECKPOINT # ""

\* C1: a run whose trainer never fails ends with exactly N_ITER metrics
\* records, the record at position i carrying iteration index i (0..N-1 in
\* increasing order), and with exactly N_ITER train calls made.
C1_RecordsPerIteration ==
    LoopDone =>
        /\ Len(episode_data) = N_ITER
        /\ Len(results) = N_ITER
        /\ Len(episode_json) = N_ITER
        /\ \A i \in 1..Len(episode_data) : episode_data[i].n = i - 1
        /\ Calls("train") = N_ITER

C1_Witness ==
    /\ LoopDone
    /\ N_ITER = MaxIter
    /\ Len(episode_data) = MaxIter
    /\ episode_data[MaxIter].n = MaxIter - 1

\* C2: exactly N_ITER save calls are made in a run, and the trainer calls of
\* the loop are strictly train, save, train, save, ...: a save directly
\* follows every train that is followed by anything, a train is preceded by
\* nothing of the loop or by a completed save, and no two train calls and no
\* two save calls are adjacent.
C2_TrainSaveAlternate ==
    /\ LoopDone => Calls("save") = N_ITER
    /\ \A i \in DOMAIN calls :
        /\ calls[i].op = "save" =>
            i > 1 /\ calls[i - 1] = [op |-> "train", ok |-> TRUE]
        /\ (calls[i].op = "train" /\ i > 1) =>
            \/ calls[i - 1].op = "restore"
            \/ calls[i - 1] = [op |-> "save", ok |-> TRUE]
        /\ (calls[i].op = "train" /\ i < Len(calls)) => calls[i + 1].op = "save"

C2_Witness ==
    /\ LoopDone
    /\ N_ITER = MaxIter
    /\ Calls("save") = MaxIter
    /\ Calls("train") = MaxIter

C4_TrainRaises ==
    (calls # <<>> /\ Last(calls) = [op |-> "train", ok |-> FALSE]) =>
        /\ pc = "halted"
        /\ Len(episode_data) = n
        /\ Len(results) = n
        /\ \A i \in 1..Len(episode_data) : episode_data[i].n = i - 1
        /\ Calls("save") = n
        /\ Len(saveReturns) = n

C4_Witness ==
    /\ calls # <<>>
    /\ Last(calls) = [op |-> "train", ok |-> FALSE]
    /\ n = 2
    /\ Len(episode_data) = 2
    /\ Calls("save") = 2

\* C5 as claimed: on every exit path of the run, completed or stopped by a
\* failure of restore, train or save, the Ray runtime has been shut down.
C5_TeardownOnEveryExit == RunOver => ~rayInitialized

\* C5 as the notebook has it: the runtime is shut down when every cell has
\* run; once restore, train or save has raised, ray.shutdown() never runs and
\* the runtime stays initialized.
C5_TeardownOnlyOnSuccess ==
    /\ pc = "end" => ~rayInitialized
    /\ Failed => rayInitialized /\ pc = "halted"

C5_Witness ==
    /\ pc = "halted"
    /\ rayInitialized
    /\ Last(calls) = [op |-> "save", ok |-> FALSE]
    /\ Len(saveReturns) >= 1

\* C6: the first failure of restore, train or save ends the run: the failed
\* call is the last trainer call, it is the only failed one, nothing runs
\* after it, and the lines printed are those of the iterations completed
\* before it.
C6_FailFast ==
    Failed =>
        /\ pc = "halted"
        /\ ~ENABLED Next
        /\ \A i \in DOMAIN calls : ~calls[i].ok <=> i = Len(calls)
        /\ Len(stdout) = Len(saveReturns)
        /\ calls[1].ok = FALSE => Len(calls) = 1

C6_Witness ==
    /\ Failed
    /\ calls = <<[op |-> "restore", ok |-> FALSE]>>
    /\ pc = "halted"

\* The line that shows iteration number num, the metrics r and the path f.
C7_Shows(num, r, f) ==
    Fmt3d(num) \o ": Min/Mean/Max reward: "
    \o Fmt8_4f(r.episode_reward_min) \o "/" \o Fmt8_4f(r.episode_reward_mean)
    \o "/" \o Fmt8_4f(r.episode_reward_max) \o ", len mean: "
    \o Fmt8_4f(r.episode_len_mean) \o ". Checkpoint saved to " \o f

\* C7: one progress line per iteration, printed after the iteration's save
\* and before the next iteration's train; the k-th line (k from 1) shows
\* the number k, the metrics the k-th train call returned and the path the
\* k-th save call returned.
C7_ProgressLines ==
    /\ Len(stdout) <= Len(saveReturns)
    /\ Len(trainReturns) <= Len(stdout) + 1
    /\ LoopDone => Len(stdout) = N_ITER
    /\ \A k \in 1..Len(stdout) :
        stdout[k] = C7_Shows(k, trainReturns[k], saveReturns[k])

C7_Witness ==
    /\ LoopDone
    /\ N_ITER = MaxIter
    /\ Len(stdout) = MaxIter
    /\ trainReturns[1] # trainReturns[2]
    /\ stdout[1] # stdout[2]

C9_RolloutUsesLastCheckpoint ==
    (rollout.invoked /\ N_ITER = DEFAULT_N_ITER) =>
        /\ rollout.path = Last(saveReturns)
        /\ rollout.found

\* C10: printed lines <= completed saves <= metrics records <= completed
\* train calls, with at most one record not yet checkpointed; if save raises
\* on iteration k the run stops with k+1 records, k checkpoints and k lines.
C10_Counts ==
    /\ Len(stdout) <= Len(saveReturns)
    /\ Len(saveReturns) <= Len(episode_data)
    /\ Len(episode_data) <= Len(trainReturns)
    /\ Len(results) = Len(episode_data)
    /\ Len(episode_data) - Len(saveReturns) \in {0, 1}
    /\ (calls # <<>> /\ Last(calls) = [op |-> "save", ok |-> FALSE]) =>
        /\ pc = "halted"
        /\ Len(episode_data) = n + 1
        /\ Len(saveReturns) = n
        /\ Cardinality({f \in disk : f.run = "current"}) = n
        /\ Len(stdout) = n

C10_Witness ==
    /\ calls # <<>>
    /\ Last(calls) = [op |-> "save", ok |-> FALSE]
    /\ n = 2
    /\ Len(episode_data) = 3
    /\ Len(saveReturns) = 2

====
